---- MODULE Spec2Model ----
(***************************************************************************)
(* A model of the one-dimensional FDTD engine of maxwell_eq.py (simulate,  *)
(* initial_conditions, update_fields, sin_func, fourier_func) and of the   *)
(* command-line front end of run.py (__main__, help_).                     *)
(*                                                                         *)
(* Field values are exact rational numbers [num, den] in lowest terms, so  *)
(* the recurrence of update_fields is modelled in exact arithmetic.  The   *)
(* transcendental functions np.sin and np.sqrt are evaluated in fixed      *)
(* point and rounded to the grid 1/SinDen.                                 *)
(***************************************************************************)
EXTENDS Integers, Sequences, FiniteSets, TLC

VARIABLES zmax, tmax, fact, Ex, By, n, pc, mode_list,
          writesEx, writesBy, argv, idx, helpShown

vars == <<zmax, tmax, fact, Ex, By, n, pc, mode_list,
          writesEx, writesBy, argv, idx, helpShown>>

(***************************************************************************)
(* Bounds of the model.                                                    *)
(***************************************************************************)
MaxZ == 3
MaxT == 4
MaxAmp == 1
MaxTSim == 2
MaxFreq == 2
MaxModes == 2
MaxArgs == 2

(***************************************************************************)
(* Exact rational arithmetic (the real numbers the floats stand for).      *)
(***************************************************************************)
Abs(x) == IF x < 0 THEN -x ELSE x

RECURSIVE GCD(_, _)
GCD(a, b) == IF b = 0 THEN a ELSE GCD(b, a % b)

Rat(a, b) ==
    LET s == IF b < 0 THEN -1 ELSE 1
        g == GCD(Abs(a), Abs(b))
    IN  [num |-> (s * a) \div g, den |-> (s * b) \div g]

RInt(a) == [num |-> a, den |-> 1]

RAdd(x, y) ==
    LET g == GCD(x.den, y.den)
        l == (x.den \div g) * y.den
    IN  Rat(x.num * (l \div x.den) + y.num * (l \div y.den), l)

RNeg(x) == [num |-> -x.num, den |-> x.den]

RSub(x, y) == RAdd(x, RNeg(y))

RMul(x, y) ==
    LET g1 == GCD(Abs(x.num), y.den)
        g2 == GCD(Abs(y.num), x.den)
    IN  Rat((x.num \div g1) * (y.num \div g2), (x.den \div g2) * (y.den \div g1))

RDiv(x, y) == RMul(x, Rat(y.den, y.num))

\* x <= y, comparing the integer parts first
RFloor(x) == IF x.num >= 0 THEN x.num \div x.den ELSE -((-x.num + x.den - 1) \div x.den)

RFrac(x) == [num |-> x.num - RFloor(x) * x.den, den |-> x.den]

RLeq(x, y) ==
    IF RFloor(x) # RFloor(y) THEN RFloor(x) < RFloor(y)
    ELSE LET a == RFrac(x)
             b == RFrac(y)
             g == GCD(a.den, b.den)
         IN  a.num * (b.den \div g) <= b.num * (a.den \div g)

RAbs(x) == [num |-> Abs(x.num), den |-> x.den]

(***************************************************************************)
(* Module constants of maxwell_eq.py.  zmax, tmax and fact are variables   *)
(* of the model: they are the configuration of a build.                    *)
(***************************************************************************)
mu == RInt(1)
epsil == Rat(1, 2)
factDefault == Rat(5, 1000)

(***************************************************************************)
(* numpy indexing.  An array of shape (zmax, tmax) is a function on        *)
(* (0..zmax-1) \X (0..tmax-1).  A negative index counts from the end; an   *)
(* index outside the axis raises IndexError; a slice is clipped.           *)
(***************************************************************************)
Shape(z, t) == (0 .. (z - 1)) \X (0 .. (t - 1))

zeros(z, t) == [p \in Shape(z, t) |-> RInt(0)]

PyIndex(i, len) == IF i < 0 THEN i + len ELSE i

InRange(i, len) == PyIndex(i, len) >= 0 /\ PyIndex(i, len) < len

Clip(i, len) ==
    LET j == PyIndex(i, len)
    IN  IF j < 0 THEN 0 ELSE IF j > len THEN len ELSE j

\* the indices selected by the slice start:stop on an axis of length len
\* (an omitted stop is passed as len)
SliceIndices(start, stop, len) ==
    LET s == Clip(start, len)
        e == Clip(stop, len)
    IN  [k \in 1 .. (IF e > s THEN e - s ELSE 0) |-> s + k - 1]

(***************************************************************************)
(* update_fields: the statements of one loop iteration.  F is the buffer   *)
(* that is recomputed, G the other one, c the coefficient.  Each statement *)
(* gives the buffer after it and the write counts after it.                *)
(***************************************************************************)
\* F[1:-1,n+1] = F[1:-1,n] - c*(G[2:,n] - G[0:-2,n])
Interior(F, G, m, z, c) ==
    LET mid == SliceIndices(1, -1, z)
        hi  == SliceIndices(2, z, z)
        lo  == SliceIndices(0, -2, z)
    IN  [p \in DOMAIN F |->
            IF p[2] = m + 1 /\ \E k \in DOMAIN mid : mid[k] = p[1]
            THEN LET k == CHOOSE k \in DOMAIN mid : mid[k] = p[1]
                 IN  RSub(F[<<mid[k], m>>],
                          RMul(c, RSub(G[<<hi[k], m>>], G[<<lo[k], m>>])))
            ELSE F[p]]

InteriorWrites(W, m, z) ==
    LET mid == SliceIndices(1, -1, z)
    IN  [p \in DOMAIN W |->
            IF p[2] = m + 1 /\ \E k \in DOMAIN mid : mid[k] = p[1]
            THEN W[p] + 1 ELSE W[p]]

\* F[0,n+1] = F[0,n] - c*(G[1,n] - G[-1,n])
FirstOk(z) == InRange(0, z) /\ InRange(1, z) /\ InRange(-1, z)

FirstNoWrap(F, G, m, z, c) ==
    [F EXCEPT ![<<0, m + 1>>] =
        RSub(F[<<0, m>>], RMul(c, RSub(G[<<1, m>>], G[<<0, m>>])))]

First(F, G, m, z, c) ==
    [F EXCEPT ![<<0, m + 1>>] =
        RSub(F[<<0, m>>],
             RMul(c, RSub(G[<<1, m>>], G[<<PyIndex(-1, z), m>>])))]

\* F[-1,n+1] = F[-1,n] - c*(G[0,n] - G[-2,n])
LastOk(z) == InRange(-1, z) /\ InRange(0, z) /\ InRange(-2, z)

LastNoWrap(F, G, m, z, c) ==
    [F EXCEPT ![<<PyIndex(-1, z), m + 1>>] =
        RSub(F[<<PyIndex(-1, z), m>>],
             RMul(c, RSub(G[<<PyIndex(-1, z), m>>], G[<<PyIndex(-2, z), m>>])))]

Last(F, G, m, z, c) ==
    [F EXCEPT ![<<PyIndex(-1, z), m + 1>>] =
        RSub(F[<<PyIndex(-1, z), m>>],
             RMul(c, RSub(G[<<0, m>>], G[<<PyIndex(-2, z), m>>])))]

\* G[:,n+1] = G[:,n]
CarrySkipped(G, m) == G

CarryAhead(G, m) ==
    [p \in DOMAIN G |-> IF p[2] >= m + 1 THEN G[<<p[1], m>>] ELSE G[p]]

Carry(G, m) ==
    [p \in DOMAIN G |-> IF p[2] = m + 1 THEN G[<<p[1], m>>] ELSE G[p]]

CarryWrites(W, m) ==
    [p \in DOMAIN W |-> IF p[2] = m + 1 THEN W[p] + 1 ELSE W[p]]

\* One branch of the loop body: the statements in order, stopping at the
\* first one that raises IndexError (what was written before it stays).
Branch(F, G, WF, WG, m, z, c) ==
    LET F1 == Interior(F, G, m, z, c)
        W1 == InteriorWrites(WF, m, z)
    IN  IF ~FirstOk(z)
        THEN [F |-> F1, G |-> G, WF |-> W1, WG |-> WG, raised |-> TRUE]
        ELSE LET F2 == First(F1, G, m, z, c)
                 W2 == [W1 EXCEPT ![<<0, m + 1>>] = @ + 1]
             IN  IF ~LastOk(z)
                 THEN [F |-> F2, G |-> G, WF |-> W2, WG |-> WG, raised |-> TRUE]
                 ELSE [F |-> Last(F2, G, m, z, c),
                       G |-> Carry(G, m),
                       WF |-> [W2 EXCEPT ![<<PyIndex(-1, z), m + 1>>] = @ + 1],
                       WG |-> CarryWrites(WG, m),
                       raised |-> FALSE]

\* the coefficient of each phase
CoefENoFact(f) == RDiv(RInt(1), RMul(mu, epsil))

CoefE(f) == RDiv(f, RMul(mu, epsil))
CoefB(f) == f

(***************************************************************************)
(* np.sin and np.sqrt in fixed point.  An angle is given as a rational     *)
(* multiple r of pi; the value is rounded to the grid 1/SinDen.            *)
(***************************************************************************)
SinDen == 10^3
FixOne == 10^4
FixPi == 31416

FixMul(a, b) == (a * b) \div FixOne

\* sin(x) for x in [0, pi/2], x and the result in units of 1/FixOne:
\* x*(1 - x^2/6*(1 - x^2/20*(1 - x^2/42*(1 - x^2/72))))
FixSinQuarter(x) ==
    LET x2 == FixMul(x, x)
        h4 == FixOne - (x2 \div 72)
        h3 == FixOne - (FixMul(x2, h4) \div 42)
        h2 == FixOne - (FixMul(x2, h3) \div 20)
        h1 == FixOne - (FixMul(x2, h2) \div 6)
    IN  FixMul(x, h1)

\* np.sin(r*pi), r a rational
SinPi(r) ==
    LET twoDen == 2 * r.den
        t   == r.num % twoDen                     \* r mod 2, over r.den
        neg == t >= r.den                         \* second half turn
        u   == IF neg THEN t - r.den ELSE t       \* in [0, 1), over r.den
        v   == IF 2 * u > r.den THEN r.den - u ELSE u  \* in [0, 1/2]
        x   == (FixPi * v) \div r.den
        y   == (FixSinQuarter(x) * SinDen + (FixOne \div 2)) \div FixOne
    IN  Rat(IF neg THEN -y ELSE y, SinDen)

\* round a rational to the grid 1/SinDen (half away from zero)
RoundGrid(x) ==
    LET a == Abs(x.num) * SinDen
        q == (2 * a + x.den) \div (2 * x.den)
    IN  Rat(IF x.num < 0 THEN -q ELSE q, SinDen)

\* np.sqrt(x) for a rational x >= 0, on the grid 1/SinDen
Sqrt(x) ==
    LET v == (x.num * SinDen * SinDen) \div x.den
        r == CHOOSE r \in 0 .. (2 * SinDen) : r * r <= v /\ v < (r + 1) * (r + 1)
    IN  Rat(r, SinDen)

(***************************************************************************)
(* The mode synthesizer: np.linspace, sin_func, fourier_func.              *)
(***************************************************************************)
\* np.linspace(start, stop, num) for integers start, stop: num samples,
\* both end points included; a single sample is start.
linspace(start, stop, num) ==
    [j \in 0 .. (num - 1) |->
        IF num = 1 THEN RInt(start)
        ELSE RAdd(RInt(start), Rat(j * (stop - start), num - 1))]

\* amp * np.sin(freq * np.pi * k / zmax), k one sample position
sin_func(amp, freq, k, z) ==
    RMul(amp, SinPi(RDiv(RMul(RInt(freq), k), RInt(z))))

\* the sum over the modes, at one sample position
RECURSIVE fourier_func(_, _, _)
fourier_func(k, modes, z) ==
    IF modes = <<>> THEN RInt(0)
    ELSE RAdd(sin_func(modes[1][1], modes[1][2], k, z),
              fourier_func(k, Tail(modes), z))

\* Ex[:zmax,0] = fourier_func(k, mode_list)
\* By[:zmax,0] = fourier_func(k, mode_list) * np.sqrt(mu * epsil)
SeedEx(E, modes, z) ==
    LET k == linspace(0, z, z)
    IN  [p \in DOMAIN E |->
            IF p[2] = 0 THEN fourier_func(k[p[1]], modes, z) ELSE E[p]]

SeedBy(B, modes, z) ==
    LET k == linspace(0, z, z)
        s == Sqrt(RMul(mu, epsil))
    IN  [p \in DOMAIN B |->
            IF p[2] = 0 THEN RoundGrid(RMul(fourier_func(k[p[1]], modes, z), s))
            ELSE B[p]]

(***************************************************************************)
(* update_fields as a process: one action per loop iteration.              *)
(***************************************************************************)
cliIdle == /\ argv = <<>>
           /\ idx = 0
           /\ helpShown = FALSE

\* for n in range(tmax-1): the body, on the even or the odd branch
UpdateStep ==
    /\ pc = "update_fields"
    /\ n < tmax - 1
    /\ LET r == IF n % 2 = 0
                THEN Branch(Ex, By, writesEx, writesBy, n, zmax, CoefE(fact))
                ELSE Branch(By, Ex, writesBy, writesEx, n, zmax, CoefB(fact))
       IN  /\ Ex' = IF n % 2 = 0 THEN r.F ELSE r.G
           /\ By' = IF n % 2 = 0 THEN r.G ELSE r.F
           /\ writesEx' = IF n % 2 = 0 THEN r.WF ELSE r.WG
           /\ writesBy' = IF n % 2 = 0 THEN r.WG ELSE r.WF
           /\ IF r.raised
              THEN pc' = "raised" /\ n' = n
              ELSE pc' = pc /\ n' = n + 1
    /\ UNCHANGED <<zmax, tmax, fact, mode_list, argv, idx, helpShown>>

\* range(tmax-1) is exhausted: update_fields returns
LoopExit ==
    /\ pc = "update_fields"
    /\ ~(n < tmax - 1)
    /\ pc' = "returned"
    /\ UNCHANGED <<zmax, tmax, fact, Ex, By, n, mode_list,
                   writesEx, writesBy, argv, idx, helpShown>>

(***************************************************************************)
(* Spec: update_fields(Ex, By) called on two buffers of shape (zmax, tmax) *)
(* whose column 0 is seeded and whose other columns are zero.              *)
(***************************************************************************)
SeedValues == {RInt(a) : a \in 0 .. MaxAmp}

Seeded(z, t) ==
    {[p \in Shape(z, t) |-> IF p[2] = 0 THEN col[p[1]] ELSE RInt(0)] :
        col \in [0 .. (z - 1) -> SeedValues]}

Init ==
    /\ zmax \in 1 .. MaxZ
    /\ tmax \in 1 .. MaxT
    /\ fact = factDefault
    /\ Ex \in Seeded(zmax, tmax)
    /\ By \in Seeded(zmax, tmax)
    /\ n = 0
    /\ pc = "update_fields"
    /\ mode_list = <<>>
    /\ writesEx = [p \in Shape(zmax, tmax) |-> 0]
    /\ writesBy = [p \in Shape(zmax, tmax) |-> 0]
    /\ cliIdle

Next == UpdateStep \/ LoopExit

Spec == Init /\ [][Next]_vars

(***************************************************************************)
(* SimSpec: simulate(mode_list) under a build configuration (zmax, tmax,   *)
(* fact) that nothing has validated.                                       *)
(***************************************************************************)
Modes == {RInt(a) : a \in 1 .. MaxAmp} \X (0 .. MaxFreq)

ModeLists == UNION {[1 .. l -> Modes] : l \in 0 .. MaxModes}

factUnstable == RInt(1)

SimInit ==
    /\ zmax \in -1 .. MaxZ
    /\ tmax \in -1 .. MaxTSim
    /\ fact \in {factDefault, factUnstable}
    /\ mode_list \in ModeLists
    /\ Ex = <<>>
    /\ By = <<>>
    /\ writesEx = <<>>
    /\ writesBy = <<>>
    /\ n = 0
    /\ pc = "simulate"
    /\ cliIdle

\* Ex = np.zeros((zmax,tmax),float); By = np.zeros((zmax,tmax),float)
\* (a negative dimension raises ValueError)
Zeros ==
    /\ pc = "simulate"
    /\ IF zmax < 0 \/ tmax < 0
       THEN /\ pc' = "raised"
            /\ UNCHANGED <<Ex, By, writesEx, writesBy>>
       ELSE /\ Ex' = zeros(zmax, tmax)
            /\ By' = zeros(zmax, tmax)
            /\ writesEx' = [p \in Shape(zmax, tmax) |-> 0]
            /\ writesBy' = [p \in Shape(zmax, tmax) |-> 0]
            /\ pc' = "initial_conditions"
    /\ UNCHANGED <<zmax, tmax, fact, n, mode_list, argv, idx, helpShown>>

\* initial_conditions(Ex, By, mode_list)
\* (column 0 of an array without columns raises IndexError)
InitialConditions ==
    /\ pc = "initial_conditions"
    /\ IF ~InRange(0, tmax)
       THEN /\ pc' = "raised"
            /\ UNCHANGED <<Ex, By>>
       ELSE /\ Ex' = SeedEx(Ex, mode_list, zmax)
            /\ By' = SeedBy(By, mode_list, zmax)
            /\ pc' = "update_fields"
    /\ UNCHANGED <<zmax, tmax, fact, n, mode_list, writesEx, writesBy,
                   argv, idx, helpShown>>

SimNext == Zeros \/ InitialConditions \/ UpdateStep \/ LoopExit

SimSpec == SimInit /\ [][SimNext]_vars

(***************************************************************************)
(* Properties of update_fields (specification Spec).                       *)
(***************************************************************************)
Cells == 0 .. (zmax - 1)

\* the transitions that have completed: 0 .. n-1
Completed == 0 .. (n - 1)

Column(A, m) == [i \in Cells |-> A[<<i, m>>]]

RECURSIVE SumTo(_, _, _)
SumTo(A, m, i) ==
    IF i < 0 THEN RInt(0) ELSE RAdd(A[<<i, m>>], SumTo(A, m, i - 1))

ColSum(A, m) == SumTo(A, m, zmax - 1)

\* a full pass over a grid with interior cells, each phase taken at least once
FullPass == pc = "returned" /\ zmax >= 3 /\ n >= 2 /\ n = tmax - 1

\* C1: after every completed transition m, the buffer that is not the one
\* recomputed has column m+1 equal to column m at every spatial index: the
\* Magnetic buffer on even m, the Electric buffer on odd m.
C1_Alternation ==
    \A m \in Completed :
        IF m % 2 = 0
        THEN Column(By, m + 1) = Column(By, m)
        ELSE Column(Ex, m + 1) = Column(Ex, m)

C1_Witness ==
    /\ FullPass
    /\ \E i \in Cells : By[<<i, 0>>] # RInt(0)
    /\ Column(Ex, 1) # Column(Ex, 0)
    /\ Column(By, 2) # Column(By, 1)

\* C2: after every completed transition m, every spatial index i (the two
\* boundary indices included) of the recomputed buffer holds the update rule
\* with its neighbours taken modulo zmax.
C2_RingRule ==
    \A m \in Completed : \A i \in Cells :
        LET r == (i + 1) % zmax
            l == (i - 1) % zmax
        IN  IF m % 2 = 0
            THEN Ex[<<i, m + 1>>] =
                   RSub(Ex[<<i, m>>],
                        RMul(RDiv(fact, RMul(mu, epsil)),
                             RSub(By[<<r, m>>], By[<<l, m>>])))
            ELSE By[<<i, m + 1>>] =
                   RSub(By[<<i, m>>],
                        RMul(fact, RSub(Ex[<<r, m>>], Ex[<<l, m>>])))

\* the wrap is visible: cell 0 changed although its right neighbour is zero,
\* and the last cell changed although its left neighbour is zero
C2_Witness ==
    /\ FullPass
    /\ By[<<1, 0>>] = RInt(0) /\ Ex[<<0, 1>>] # Ex[<<0, 0>>]
    /\ By[<<zmax - 2, 0>>] = RInt(0) /\ Ex[<<zmax - 1, 1>>] # Ex[<<zmax - 1, 0>>]
    /\ Column(By, 2) # Column(By, 1)

\* C6: a transition of update_fields at step n changes no cell outside
\* column n+1, in either buffer, and never changes the shape; so column 0 and
\* every column already written keep their values.
C6_Frame ==
    [][pc = "update_fields" =>
        /\ DOMAIN Ex' = DOMAIN Ex /\ DOMAIN By' = DOMAIN By
        /\ \A p \in DOMAIN Ex :
              p[2] # n + 1 => Ex'[p] = Ex[p] /\ By'[p] = By[p]
        /\ n' \in {n, n + 1}]_vars

C6_Witness ==
    /\ FullPass /\ n >= 3
    /\ \E i \in Cells : Ex[<<i, 0>>] # RInt(0)
    /\ \E i \in Cells : By[<<i, 0>>] # RInt(0)
    /\ Column(Ex, 1) # Column(Ex, 0)
    /\ Column(By, 2) # Column(By, 1)

\* C9: the pass never stops on a failure, and when it has stopped it has
\* taken exactly tmax-1 transitions and has written every cell of every
\* column 1..tmax-1 of both buffers exactly once (and none of column 0).
C9_TerminatesComplete ==
    /\ pc # "raised"
    /\ pc = "returned" =>
          /\ n = (IF tmax >= 1 THEN tmax - 1 ELSE 0)
          /\ \A p \in DOMAIN writesEx :
                /\ writesEx[p] = (IF p[2] = 0 THEN 0 ELSE 1)
                /\ writesBy[p] = (IF p[2] = 0 THEN 0 ELSE 1)

\* C10: on a grid of at least two cells, every column that has been computed
\* has the same sum over the spatial indices as column 0, for Ex and for By.
C10_SumConserved ==
    zmax >= 2 =>
        \A m \in 0 .. n :
            /\ ColSum(Ex, m) = ColSum(Ex, 0)
            /\ ColSum(By, m) = ColSum(By, 0)

C10_Witness ==
    /\ FullPass /\ n >= 3
    /\ ColSum(Ex, 0) # RInt(0) /\ ColSum(By, 0) # RInt(0)
    /\ Column(Ex, n) # Column(Ex, 0)
    /\ Column(By, n) # Column(By, 0)

(***************************************************************************)
(* C8: boundedness.  The recurrence conserves the discrete energy          *)
(*   Q(m) = |Ex_m|^2 + |By_m|^2/(mu*epsil) -/+ c*<Ex_m, D By_m>            *)
(* (c = fact/(mu*epsil), D the ring difference, - on even m, + on odd m),  *)
(* which is positive definite when fact^2 < mu*epsil; the amplitude of a   *)
(* cell is then at most sqrt(3.05*zmax) times the initial maximum.         *)
(***************************************************************************)
RMax(S) == CHOOSE x \in S : \A y \in S : RLeq(y, x)

InitialMax ==
    RMax({RAbs(Ex[<<i, 0>>]) : i \in Cells} \cup {RAbs(By[<<i, 0>>]) : i \in Cells})

ISqrt(v) == CHOOSE r \in 0 .. v : r * r <= v /\ v < (r + 1) * (r + 1)

\* an integer above sqrt(3.05 * zmax)
GrowthFactor == 2 * (ISqrt(zmax) + 1)

RECURSIVE RSum(_, _)
RSum(f, i) == IF i < 0 THEN RInt(0) ELSE RAdd(f[i], RSum(f, i - 1))

\* <Ex_m, D By_m> on the ring
Cross(m) ==
    RSum([i \in Cells |->
            RMul(Ex[<<i, m>>],
                 RSub(By[<<(i + 1) % zmax, m>>], By[<<(i - 1) % zmax, m>>]))],
         zmax - 1)

SignedCross(m) == IF m % 2 = 0 THEN RNeg(Cross(m)) ELSE Cross(m)

\* Q(m+1) - Q(m), written with differences of squares
EnergyDrift(m) ==
    LET dE == RSum([i \in Cells |->
                      RMul(RSub(Ex[<<i, m + 1>>], Ex[<<i, m>>]),
                           RAdd(Ex[<<i, m + 1>>], Ex[<<i, m>>]))], zmax - 1)
        dB == RSum([i \in Cells |->
                      RMul(RSub(By[<<i, m + 1>>], By[<<i, m>>]),
                           RAdd(By[<<i, m + 1>>], By[<<i, m>>]))], zmax - 1)
        c  == RDiv(fact, RMul(mu, epsil))
    IN  RAdd(RAdd(dE, RDiv(dB, RMul(mu, epsil))),
             RMul(c, RSub(SignedCross(m + 1), SignedCross(m))))

ModeSum(modes, x) ==
    RSum([j \in 0 .. (Len(modes) - 1) |->
            RMul(modes[j + 1][1],
                 SinPi(RDiv(RMul(RInt(modes[j + 1][2]), x), RInt(zmax))))],
         Len(modes) - 1)

\* the standard Courant bound of the scheme: 2*fact <= sqrt(mu*epsil)
CourantStable(f) == RLeq(RMul(RInt(4), RMul(f, f)), RMul(mu, epsil))

ValidConfig == zmax >= 1 /\ tmax >= 1 /\ CourantStable(fact)

\* C3: once initial_conditions has run, Ex[k,0] is the sum over the modes of
\* A*sin(f*pi*k/zmax), the sine sampled at the grid index k itself.
C3_SampledAtIndex ==
    (pc = "update_fields" /\ ValidConfig) =>
        \A k \in Cells : Ex[<<k, 0>>] = ModeSum(mode_list, RInt(k))

\* C4: under a configuration with non-positive zmax or tmax or with a fact
\* beyond the stability bound, simulate fails before the recurrence:
\* update_fields is never entered and no column after column 0 is computed.
C4_InvalidRejected ==
    ~ValidConfig =>
        /\ pc \notin {"update_fields", "returned"}
        /\ n = 0

\* C5: under zmax >= 1, tmax >= 1 and a stable fact, simulate never stops on a failure.
C5_Total ==
    ValidConfig => pc # "raised"

(***************************************************************************)
(* run.py: the command line.  A token is a sequence of characters.         *)
(***************************************************************************)
Digits == {"0", "1", "2", "3", "4", "5", "6", "7", "8", "9"}

DigitVal(ch) ==
    CASE ch = "0" -> 0 [] ch = "1" -> 1 [] ch = "2" -> 2 [] ch = "3" -> 3
      [] ch = "4" -> 4 [] ch = "5" -> 5 [] ch = "6" -> 6 [] ch = "7" -> 7
      [] ch = "8" -> 8 [] ch = "9" -> 9

\* str.split(","): the pieces between the commas (always at least one)
RECURSIVE split(_)
split(str) ==
    IF str = <<>> THEN << <<>> >>
    ELSE LET rest == split(Tail(str))
         IN  IF Head(str) = ","
             THEN << <<>> >> \o rest
             ELSE << <<Head(str)>> \o rest[1] >> \o Tail(rest)

\* the value of a run of digits, and whether a string is one
RECURSIVE digitsVal(_, _)
digitsVal(str, acc) ==
    IF str = <<>> THEN acc ELSE digitsVal(Tail(str), 10 * acc + DigitVal(Head(str)))

RECURSIVE allDigits(_)
allDigits(str) ==
    str = <<>> \/ (Head(str) \in Digits /\ allDigits(Tail(str)))

unsigned(str) ==
    IF str # <<>> /\ Head(str) \in {"-", "+"} THEN Tail(str) ELSE str

negative(str) == str # <<>> /\ Head(str) = "-"

\* int(str): [ok, val]; ok = FALSE stands for ValueError
int(str) ==
    LET body == unsigned(str)
    IN  IF body # <<>> /\ allDigits(body)
        THEN [ok |-> TRUE,
              val |-> IF negative(str) THEN -digitsVal(body, 0) ELSE digitsVal(body, 0)]
        ELSE [ok |-> FALSE, val |-> 0]

\* float(str) on decimal literals: digits with at most one point and at
\* least one digit, after an optional sign
float(str) ==
    LET body  == unsigned(str)
        parts == IF body = <<>> THEN << <<>> >>
                 ELSE LET rest == [i \in 1 .. Len(body) |-> body[i]]
                      IN  IF \E i \in 1 .. Len(rest) : rest[i] = "."
                          THEN LET d == CHOOSE i \in 1 .. Len(rest) :
                                          rest[i] = "." /\ \A j \in 1 .. (i - 1) : rest[j] # "."
                               IN  <<SubSeq(rest, 1, d - 1), SubSeq(rest, d + 1, Len(rest))>>
                          ELSE <<rest>>
        whole == parts[1]
        frac  == IF Len(parts) = 2 THEN parts[2] ELSE <<>>
        ok    == /\ allDigits(whole) /\ allDigits(frac)
                 /\ Len(whole) + Len(frac) >= 1
        mag   == Rat(digitsVal(whole \o frac, 0), 10 ^ Len(frac))
    IN  IF ok
        THEN [ok |-> TRUE, val |-> IF negative(str) THEN RNeg(mag) ELSE mag]
        ELSE [ok |-> FALSE, val |-> RInt(0)]

\* the body of the try block for one argument:
\*   amp_freq_tuple = mode.split(","); amp, freq = amp_freq_tuple
\*   mode_list.append(( float(amp), int(freq) ))
\* ok = FALSE stands for the ValueError of the unpacking or of a conversion
parseMode(mode) ==
    LET amp_freq_tuple == split(mode)
    IN  IF Len(amp_freq_tuple) # 2
        THEN [ok |-> FALSE, val |-> <<>>]
        ELSE LET a == float(amp_freq_tuple[1])
                 f == int(amp_freq_tuple[2])
             IN  IF a.ok /\ f.ok
                 THEN [ok |-> TRUE, val |-> <<a.val, f.val>>]
                 ELSE [ok |-> FALSE, val |-> <<>>]

\* help_(): print the message, then sys.exit(); next is where control would
\* go if help_ returned
help_NoExit(next) == [shown |-> TRUE, pc |-> next]

help_(next) == [shown |-> TRUE, pc |-> "exited"]

(***************************************************************************)
(* CliSpec: one invocation of run.py with the arguments argv (sys.argv[1:])*)
(***************************************************************************)
Join(parts) ==
    IF Len(parts) = 1 THEN parts[1]
    ELSE IF Len(parts) = 2 THEN parts[1] \o <<",">> \o parts[2]
    ELSE parts[1] \o <<",">> \o parts[2] \o <<",">> \o parts[3]

Parts == { <<"2">>, <<"1", ".", "5">>, <<"-", "3">>, <<"x">>, <<"h", "e", "l", "p">>, <<>> }

Tokens ==
    {Join(<<a>>) : a \in Parts}
      \cup {Join(<<a, b>>) : a \in Parts, b \in Parts}
      \cup {Join(<<a, <<"2">>, c>>) : a \in {<<"2">>, <<"1", ".", "5">>}, c \in Parts}

Args == UNION {[1 .. l -> Tokens] : l \in 0 .. MaxArgs}

engineIdle ==
    /\ zmax = 0 /\ tmax = 0 /\ fact = factDefault
    /\ Ex = <<>> /\ By = <<>> /\ writesEx = <<>> /\ writesBy = <<>>
    /\ n = 0

CliInit ==
    /\ argv \in Args
    /\ idx = 1
    /\ helpShown = FALSE
    /\ mode_list = <<>>
    /\ pc = "main"
    /\ engineIdle

\* if len(sys.argv) == 1: ... elif sys.argv[1] == "help": ... else: the loop
MainStart ==
    /\ pc = "main"
    /\ IF Len(argv) = 0
       THEN /\ mode_list' = << <<RInt(1), 2>> >>
            /\ pc' = "call_run"
            /\ UNCHANGED helpShown
       ELSE IF argv[1] = <<"h", "e", "l", "p">>
       THEN /\ helpShown' = help_("call_run").shown
            /\ pc' = help_("call_run").pc
            /\ UNCHANGED mode_list
       ELSE /\ pc' = "loop"
            /\ UNCHANGED <<mode_list, helpShown>>
    /\ UNCHANGED <<zmax, tmax, fact, Ex, By, n, writesEx, writesBy, argv, idx>>

\* one iteration of: for mode in sys.argv[1:]: try ... except: help_()
ParseMode ==
    /\ pc = "loop"
    /\ idx <= Len(argv)
    /\ LET r == parseMode(argv[idx])
       IN  IF r.ok
           THEN /\ mode_list' = Append(mode_list, r.val)
                /\ UNCHANGED <<pc, helpShown>>
           ELSE /\ helpShown' = help_("loop").shown
                /\ pc' = help_("loop").pc
                /\ UNCHANGED mode_list
    /\ idx' = idx + 1
    /\ UNCHANGED <<zmax, tmax, fact, Ex, By, n, writesEx, writesBy, argv>>

\* the loop is over
LoopDone ==
    /\ pc = "loop"
    /\ idx > Len(argv)
    /\ pc' = "call_run"
    /\ UNCHANGED <<zmax, tmax, fact, Ex, By, n, mode_list, writesEx, writesBy,
                   argv, idx, helpShown>>

\* print the modes; run(mode_list), which calls simulate(mode_list)
CallRun ==
    /\ pc = "call_run"
    /\ pc' = "run"
    /\ UNCHANGED <<zmax, tmax, fact, Ex, By, n, mode_list, writesEx, writesBy,
                   argv, idx, helpShown>>

CliNext == MainStart \/ ParseMode \/ LoopDone \/ CallRun

CliSpec == CliInit /\ [][CliNext]_vars

(***************************************************************************)
(* Properties of the command line (specification CliSpec).                 *)
(***************************************************************************)
Commas(tok) == {i \in 1 .. Len(tok) : tok[i] = ","}

\* a decimal numeral: an optional sign, then digits and at most one point,
\* with at least one digit
IsReal(str) ==
    LET from == IF Len(str) >= 1 /\ str[1] \in {"-", "+"} THEN 2 ELSE 1
        body == from .. Len(str)
    IN  /\ \A i \in body : str[i] \in Digits \cup {"."}
        /\ Cardinality({i \in body : str[i] = "."}) <= 1
        /\ \E i \in body : str[i] \in Digits

\* an integer numeral: an optional sign, then one or more digits
IsInteger(str) ==
    LET from == IF Len(str) >= 1 /\ str[1] \in {"-", "+"} THEN 2 ELSE 1
        body == from .. Len(str)
    IN  body # {} /\ \A i \in body : str[i] \in Digits

\* the token reads amplitude,frequency
WellFormed(tok) ==
    /\ Cardinality(Commas(tok)) = 1
    /\ LET c == CHOOSE i \in Commas(tok) : TRUE
       IN  /\ IsReal(SubSeq(tok, 1, c - 1))
           /\ IsInteger(SubSeq(tok, c + 1, Len(tok)))

AnyMalformed == \E i \in 1 .. Len(argv) : ~WellFormed(argv[i])

====
